---- MODULE Spec2Model ----
(***************************************************************************)
(* Model of app.py, the Streamlit "Tokenizer Testing" page.                *)
(*                                                                         *)
(* The script is executed top to bottom once per run; the host re-runs it  *)
(* after every widget change.  One action models one statement of the      *)
(* script.  Script variables are boxed: <<>> is "not bound yet in this     *)
(* run", <<v>> is "bound to v".  A text is the sequence of its             *)
(* whitespace-separated words; a rendered string is the sequence of its    *)
(* fragments.                                                              *)
(*                                                                         *)
(* The transformers library is not part of the repository: its tokenizer   *)
(* is modelled from the specification (BERT sentence template, a small     *)
(* stand-in vocabulary) and every library call may also raise.             *)
(***************************************************************************)
EXTENDS Integers, Sequences, FiniteSets, TLC

VARIABLES
    selectbox_value,        \* widget state of the selector (kept by the host)
    text_input_value,       \* widget state of the text field (kept by the host)
    session_state,          \* st.session_state: survives re-runs; app.py never writes it
    pc,                     \* the statement the run is at, "done" or "failed"
    selected_checkpoint,    \* script variable, line 11
    tokenizer,              \* script variable, line 18
    user_input,             \* script variable, line 19
    encoded,                \* script variable, line 24
    decoded,                \* script variable, line 26
    encoded_wo_spec_tokens, \* script variable, line 31
    num_tokens,             \* script variable, line 32
    screen,                 \* elements rendered by the current run, in order
    error,                  \* kind of the exception that ended the run, or "none"
    memo                    \* observer: snapshot of one earlier completed run

vars == <<selectbox_value, text_input_value, session_state, pc,
          selected_checkpoint, tokenizer, user_input, encoded, decoded,
          encoded_wo_spec_tokens, num_tokens, screen, error, memo>>

script_vars == <<selected_checkpoint, tokenizer, user_input, encoded, decoded,
                 encoded_wo_spec_tokens, num_tokens>>

----------------------------------------------------------------------------
(* Bounds and inputs *)

\* longest text, in words, that the user types
MaxWords == 2

\* words the user can type
Words == {"gobbledygook!", "Hi"}

Texts == UNION {[1..n -> Words] : n \in 0..MaxWords}

Unbound == <<>>

Bound(v) == <<v>>

IsBound(x) == x # Unbound

ValueOf(x) == x[1]

----------------------------------------------------------------------------
(* Widgets, lines 11-15 and 19-22 *)

\* variant: one option name is misspelt
options_misspelt == <<"bert-base-uncased", "bert-base-cased",
                      "bert-large-uncased", "bert-large-case">>

options == <<"bert-base-uncased", "bert-base-cased",
             "bert-large-uncased", "bert-large-cased">>

index == 0

\* variant: the default index is off by one
selectbox_default_off_by_one == options[index + 2]

\* selectbox(..., index=0): the option selected before any interaction
selectbox_default == options[index + 1]

\* text_input(..., value="gobbledygook!"): the text before any interaction
value == <<"gobbledygook!">>

----------------------------------------------------------------------------
(* The tokenizer library (transformers), as the specification describes it *)

CLS == 101

SEP == 102

\* checkpoint names the library can resolve
HubCheckpoints == {"bert-base-uncased", "bert-base-cased",
                   "bert-large-uncased", "bert-large-cased"}

\* the uncased checkpoints lower-case the text before segmenting it
do_lower_case(checkpoint) ==
    checkpoint \in {"bert-base-uncased", "bert-large-uncased"}

\* stand-in vocabulary: token ID -> token string, one table per casing
vocab(checkpoint) ==
    IF do_lower_case(checkpoint)
    THEN (101 :> "[CLS]") @@ (102 :> "[SEP]") @@ (1000 :> "go")
         @@ (1001 :> "##bble") @@ (1002 :> "##dy") @@ (1003 :> "##gook")
         @@ (1004 :> "!") @@ (1005 :> "hi")
    ELSE (101 :> "[CLS]") @@ (102 :> "[SEP]") @@ (2000 :> "go")
         @@ (2001 :> "##bbled") @@ (2002 :> "##ygook")
         @@ (2003 :> "!") @@ (2004 :> "Hi")

\* word-piece segmentation of one word, as token strings
wordpiece_tokenize(checkpoint, word) ==
    IF do_lower_case(checkpoint)
    THEN CASE word = "gobbledygook!" -> <<"go", "##bble", "##dy", "##gook", "!">>
           [] word = "Hi" -> <<"hi">>
    ELSE CASE word = "gobbledygook!" -> <<"go", "##bbled", "##ygook", "!">>
           [] word = "Hi" -> <<"Hi">>

convert_token_to_id(checkpoint, token) ==
    CHOOSE id \in DOMAIN vocab(checkpoint) : vocab(checkpoint)[id] = token

RECURSIVE tokenize(_, _)
\* the token strings of a text: the word pieces of its words, in order
tokenize(checkpoint, text) ==
    IF text = <<>> THEN <<>>
    ELSE wordpiece_tokenize(checkpoint, Head(text)) \o tokenize(checkpoint, Tail(text))

convert_tokens_to_ids(checkpoint, tokens) ==
    [i \in 1..Len(tokens) |-> convert_token_to_id(checkpoint, tokens[i])]

\* BERT sentence template: [CLS] ids [SEP]
build_inputs_with_special_tokens(ids) == <<CLS>> \o ids \o <<SEP>>

\* tokenizer.encode(text, add_special_tokens=...) and tokenizer(text)["input_ids"]
encode(checkpoint, text, add_special_tokens) ==
    LET ids == convert_tokens_to_ids(checkpoint, tokenize(checkpoint, text))
    IN  IF add_special_tokens THEN build_inputs_with_special_tokens(ids) ELSE ids

\* tokenizer.decode(id) of a single token ID
decode(checkpoint, id) == vocab(checkpoint)[id]

\* AutoTokenizer.from_pretrained raises for a name the hub does not know
from_pretrained_error(name) ==
    IF name \in HubCheckpoints THEN "fault" ELSE "unknown-checkpoint"

----------------------------------------------------------------------------
(* app.py *)

RECURSIVE unique(_)
\* a sequence without the later occurrences of its elements
unique(seq) ==
    IF seq = <<>> THEN <<>>
    ELSE LET front == unique(SubSeq(seq, 1, Len(seq) - 1))
             last == seq[Len(seq)]
         IN  IF \E i \in 1..Len(front) : front[i] = last
             THEN front ELSE Append(front, last)

\* variant: one pair per distinct token ID
show_decoding_unique(tok, encoding) ==
    [i \in 1..Len(unique(encoding)) |->
        <<unique(encoding)[i], decode(tok, unique(encoding)[i])>>]

\* lines 5-7
show_decoding(tok, encoding) ==
    [i \in 1..Len(encoding) |-> <<encoding[i], decode(tok, encoding[i])>>]

\* the backquote character (a TLA+ string cannot hold one)
backquote == "[backquote]"

\* line 28: the f-string  backquote {_id} ": " {word} backquote
format_pair(pair) == <<backquote, ToString(pair[1]), ": ", pair[2], backquote>>

RECURSIVE join(_, _)
\* sep.join(strings)
join(sep, strings) ==
    IF strings = <<>> THEN <<>>
    ELSE IF Len(strings) = 1 THEN strings[1]
    ELSE strings[1] \o sep \o join(sep, Tail(strings))

\* lines 27-29: "- " + "\n- ".join([...])
markdown_body(pairs) ==
    <<"- ">> \o join(<<"\n- ">>, [i \in 1..Len(pairs) |-> format_pair(pairs[i])])

\* variant: the two encode calls have their arguments exchanged
add_special_tokens_exchanged(line) == line = 31

\* the add_special_tokens argument of the encode call on `line`:
\* line 24 leaves the library default (True), line 31 passes False
add_special_tokens(line) == line # 31

Rendered(kind) == \E i \in 1..Len(screen) : screen[i].kind = kind

Element(kind, body) == [kind |-> kind, body |-> body]

Init ==
    /\ selectbox_value = selectbox_default
    /\ text_input_value = value
    /\ session_state = <<>>
    /\ pc = "title"
    /\ selected_checkpoint = Unbound
    /\ tokenizer = Unbound
    /\ user_input = Unbound
    /\ encoded = Unbound
    /\ decoded = Unbound
    /\ encoded_wo_spec_tokens = Unbound
    /\ num_tokens = Unbound
    /\ screen = <<>>
    /\ error = "none"
    /\ memo = <<>>

\* an exception leaves the script: the host shows it below what is rendered
Raise(kind) ==
    /\ pc' = "failed"
    /\ error' = kind
    /\ screen' = Append(screen, Element("exception", <<kind>>))

\* line 9
Title ==
    /\ pc = "title"
    /\ screen' = Append(screen, Element("title", <<"Tokenizer Testing">>))
    /\ pc' = "selectbox"
    /\ UNCHANGED <<selectbox_value, text_input_value, session_state,
                   script_vars, error, memo>>

\* variant: both inputs are collected before the tokenizer is resolved
SelectboxThenTextInput ==
    /\ pc = "selectbox"
    /\ selected_checkpoint' = Bound(selectbox_value)
    /\ user_input' = Bound(text_input_value)
    /\ screen' = Append(Append(screen, Element("selectbox", <<selectbox_value>>)),
                        Element("text_input", text_input_value))
    /\ pc' = "from_pretrained"
    /\ UNCHANGED <<selectbox_value, text_input_value, session_state,
                   tokenizer, encoded, decoded,
                   encoded_wo_spec_tokens, num_tokens, error, memo>>

\* lines 11-15
Selectbox ==
    /\ pc = "selectbox"
    /\ selected_checkpoint' = Bound(selectbox_value)
    /\ screen' = Append(screen, Element("selectbox", <<selectbox_value>>))
    /\ pc' = "from_pretrained"
    /\ UNCHANGED <<selectbox_value, text_input_value, session_state,
                   tokenizer, user_input, encoded, decoded,
                   encoded_wo_spec_tokens, num_tokens, error, memo>>

\* variant: the tokenizer is taken from st.session_state when one is kept
\* there, and the one for the current selection is kept for the next run
FromPretrainedCached ==
    /\ pc = "from_pretrained"
    /\ \/ /\ ValueOf(selected_checkpoint) \in HubCheckpoints
          /\ tokenizer' =
                IF session_state = <<>> THEN selected_checkpoint ELSE session_state
          /\ session_state' = selected_checkpoint
          /\ pc' = "text_input"
          /\ UNCHANGED <<screen, error>>
       \/ /\ Raise(from_pretrained_error(ValueOf(selected_checkpoint)))
          /\ UNCHANGED <<tokenizer, session_state>>
    /\ UNCHANGED <<selectbox_value, text_input_value,
                   selected_checkpoint, user_input, encoded, decoded,
                   encoded_wo_spec_tokens, num_tokens, memo>>

\* line 18
FromPretrained ==
    /\ pc = "from_pretrained"
    /\ \/ /\ ValueOf(selected_checkpoint) \in HubCheckpoints
          /\ tokenizer' = Bound(ValueOf(selected_checkpoint))
          /\ pc' = "text_input"
          /\ UNCHANGED <<screen, error>>
       \/ /\ Raise(from_pretrained_error(ValueOf(selected_checkpoint)))
          /\ UNCHANGED tokenizer
    /\ UNCHANGED <<selectbox_value, text_input_value, session_state,
                   selected_checkpoint, user_input, encoded, decoded,
                   encoded_wo_spec_tokens, num_tokens, memo>>

\* variant: an empty text is replaced by the default text
TextInputOrDefault ==
    /\ pc = "text_input"
    /\ user_input' = Bound(IF text_input_value = <<>> THEN value ELSE text_input_value)
    /\ screen' = Append(screen, Element("text_input", text_input_value))
    /\ pc' = "encode"
    /\ UNCHANGED <<selectbox_value, text_input_value, session_state,
                   selected_checkpoint, tokenizer, encoded, decoded,
                   encoded_wo_spec_tokens, num_tokens, error, memo>>

\* lines 19-22
TextInput ==
    /\ pc = "text_input"
    /\ user_input' = Bound(text_input_value)
    /\ screen' = Append(screen, Element("text_input", text_input_value))
    /\ pc' = "encode"
    /\ UNCHANGED <<selectbox_value, text_input_value, session_state,
                   selected_checkpoint, tokenizer, encoded, decoded,
                   encoded_wo_spec_tokens, num_tokens, error, memo>>

\* variant: a failed encode is reported and the statement is tried again
EncodeWithRetry ==
    /\ pc = "encode"
    /\ \/ /\ encoded' = Bound(encode(ValueOf(tokenizer), ValueOf(user_input),
                                     add_special_tokens(24)))
          /\ pc' = "show_decoding"
          /\ UNCHANGED <<screen, error>>
       \/ /\ error = "none"
          /\ error' = "fault"
          /\ screen' = Append(screen, Element("exception", <<"fault">>))
          /\ UNCHANGED <<pc, encoded>>
    /\ UNCHANGED <<selectbox_value, text_input_value, session_state,
                   selected_checkpoint, tokenizer, user_input, decoded,
                   encoded_wo_spec_tokens, num_tokens, memo>>

\* line 24
Encode ==
    /\ pc = "encode"
    /\ \/ /\ encoded' = Bound(encode(ValueOf(tokenizer), ValueOf(user_input),
                                     add_special_tokens(24)))
          /\ pc' = "show_decoding"
          /\ UNCHANGED <<screen, error>>
       \/ /\ Raise("fault")
          /\ UNCHANGED encoded
    /\ UNCHANGED <<selectbox_value, text_input_value, session_state,
                   selected_checkpoint, tokenizer, user_input, decoded,
                   encoded_wo_spec_tokens, num_tokens, memo>>

\* variant: the decoding statement never finishes
ShowDecodingSpins ==
    /\ pc = "show_decoding"
    /\ UNCHANGED vars

\* line 26
ShowDecoding ==
    /\ pc = "show_decoding"
    /\ decoded' = Bound(show_decoding(ValueOf(tokenizer), ValueOf(encoded)))
    /\ pc' = "markdown"
    /\ UNCHANGED <<selectbox_value, text_input_value, session_state,
                   selected_checkpoint, tokenizer, user_input, encoded,
                   encoded_wo_spec_tokens, num_tokens, screen, error, memo>>

\* lines 27-29
Markdown ==
    /\ pc = "markdown"
    /\ screen' = Append(screen, Element("markdown", markdown_body(ValueOf(decoded))))
    /\ pc' = "encode_wo_spec_tokens"
    /\ UNCHANGED <<selectbox_value, text_input_value, session_state,
                   script_vars, error, memo>>

\* line 31
EncodeWoSpecTokens ==
    /\ pc = "encode_wo_spec_tokens"
    /\ \/ /\ encoded_wo_spec_tokens' =
                 Bound(encode(ValueOf(tokenizer), ValueOf(user_input),
                              add_special_tokens(31)))
          /\ pc' = "num_tokens"
          /\ UNCHANGED <<screen, error>>
       \/ /\ Raise("fault")
          /\ UNCHANGED encoded_wo_spec_tokens
    /\ UNCHANGED <<selectbox_value, text_input_value, session_state,
                   selected_checkpoint, tokenizer, user_input, encoded, decoded,
                   num_tokens, memo>>

\* variant: the count is taken of the default encoding
NumTokensOfEncoded ==
    /\ pc = "num_tokens"
    /\ num_tokens' = Bound(Len(ValueOf(encoded)))
    /\ pc' = "metric"
    /\ UNCHANGED <<selectbox_value, text_input_value, session_state,
                   selected_checkpoint, tokenizer, user_input, encoded, decoded,
                   encoded_wo_spec_tokens, screen, error, memo>>

\* line 32
NumTokens ==
    /\ pc = "num_tokens"
    /\ num_tokens' = Bound(Len(ValueOf(encoded_wo_spec_tokens)))
    /\ pc' = "metric"
    /\ UNCHANGED <<selectbox_value, text_input_value, session_state,
                   selected_checkpoint, tokenizer, user_input, encoded, decoded,
                   encoded_wo_spec_tokens, screen, error, memo>>

\* line 33; the script ends after it
Metric ==
    /\ pc = "metric"
    /\ screen' = Append(screen, Element("metric", <<ValueOf(num_tokens)>>))
    /\ pc' = "done"
    /\ UNCHANGED <<selectbox_value, text_input_value, session_state,
                   script_vars, error, memo>>

\* one statement of the running script
Step ==
    \/ Title
    \/ Selectbox
    \/ FromPretrained
    \/ TextInput
    \/ Encode
    \/ ShowDecoding
    \/ Markdown
    \/ EncodeWoSpecTokens
    \/ NumTokens
    \/ Metric

Ended == pc \in {"done", "failed"}

\* what the observer may keep of the run that just ended
Snapshot ==
    [checkpoint |-> ValueOf(selected_checkpoint), text |-> ValueOf(user_input),
     encoded |-> ValueOf(encoded), decoded |-> ValueOf(decoded),
     num_tokens |-> ValueOf(num_tokens), screen |-> screen]

\* the host starts a new run: fresh script namespace, empty page
Rerun ==
    /\ pc' = "title"
    /\ selected_checkpoint' = Unbound
    /\ tokenizer' = Unbound
    /\ user_input' = Unbound
    /\ encoded' = Unbound
    /\ decoded' = Unbound
    /\ encoded_wo_spec_tokens' = Unbound
    /\ num_tokens' = Unbound
    /\ screen' = <<>>
    /\ error' = "none"
    /\ \/ memo' = memo
       \/ pc = "done" /\ memo' = <<Snapshot>>
    /\ UNCHANGED session_state

\* the user picks another option of the selector
SelectCheckpoint ==
    /\ Ended
    /\ \E i \in 1..Len(options) :
          /\ options[i] # selectbox_value
          /\ selectbox_value' = options[i]
    /\ UNCHANGED text_input_value
    /\ Rerun

\* the user edits the text field
EditText ==
    /\ Ended
    /\ \E t \in Texts :
          /\ t # text_input_value
          /\ text_input_value' = t
    /\ UNCHANGED selectbox_value
    /\ Rerun

Next == Step \/ SelectCheckpoint \/ EditText

Spec == Init /\ [][Next]_vars

\* the script runs synchronously: a run that can take a step takes one
FairSpec == Spec /\ WF_vars(Step)

----------------------------------------------------------------------------
(* What the page shows *)

ElementBody(kind) ==
    LET i == CHOOSE i \in 1..Len(screen) : screen[i].kind = kind
    IN  screen[i].body

Position(kind) == CHOOSE i \in 1..Len(screen) : screen[i].kind = kind

RECURSIVE Ascending(_)
\* the numbers of a finite set, smallest first
Ascending(S) ==
    IF S = {} THEN <<>>
    ELSE LET least == CHOOSE x \in S : \A y \in S : x <= y
         IN  <<least>> \o Ascending(S \ {least})

\* the list items of a markdown text that follows its first "- ":
\* the runs of fragments between the "\n- " separators
SplitItems(fragments) ==
    LET n == Len(fragments)
        cuts == Ascending({0, n + 1} \cup {i \in 1..n : fragments[i] = "\n- "})
    IN  [k \in 1..(Len(cuts) - 1) |-> SubSeq(fragments, cuts[k] + 1, cuts[k + 1] - 1)]

\* the bullet lines of the rendered list
BulletLines == SplitItems(Tail(ElementBody("markdown")))

\* the number the metric shows
MetricValue == ElementBody("metric")[1]

\* the run was ended by the call on line 18, 24 or 31
FailedAt(line) ==
    /\ pc = "failed"
    /\ CASE line = 18 -> ~IsBound(tokenizer)
         [] line = 24 -> IsBound(tokenizer) /\ ~IsBound(encoded)
         [] line = 31 -> IsBound(encoded)

WidgetChanged ==
    selectbox_value' # selectbox_value \/ text_input_value' # text_input_value

----------------------------------------------------------------------------
(* Claims *)

\* C1 as stated: when a run has failed (resolution, or either encode call),
\* neither the bullet list nor the metric of that run has been rendered, and
\* the failed run takes no further step (no retry).
C1_NoPartialOutput ==
    /\ error # "none" => pc = "failed"
    /\ pc = "failed" =>
          /\ ~Rendered("markdown")
          /\ ~Rendered("metric")
          /\ ~ENABLED Step

\* C1 amended: a failure of the resolution (line 18) or of the first encode
\* (line 24) leaves neither the list nor the metric rendered; a failure of
\* the second encode (line 31) leaves the list of that run rendered and only
\* the metric missing; a failed run takes no further step (no retry).
C1_PartialOutputOnlyAtSecondEncode ==
    /\ error # "none" => pc = "failed"
    /\ pc = "failed" =>
          /\ Rendered("exception")
          /\ ~Rendered("metric")
          /\ FailedAt(18) \/ FailedAt(24) => ~Rendered("markdown")
          /\ FailedAt(31) =>
                /\ Rendered("markdown")
                /\ Position("markdown") < Position("exception")
          /\ ~ENABLED Step

C1_Witness == FailedAt(31) /\ Rendered("markdown") /\ ~Rendered("metric")

\* C9 as stated: in every run both inputs are collected before the tokenizer
\* is resolved, then encode, decode, render; all encoding is done before
\* anything of the output is rendered.
C9_InputsThenResolveEncodeThenRender ==
    /\ IsBound(tokenizer) => IsBound(selected_checkpoint) /\ IsBound(user_input)
    /\ IsBound(encoded) => IsBound(tokenizer)
    /\ IsBound(decoded) => IsBound(encoded)
    /\ Rendered("markdown") \/ Rendered("metric") =>
          /\ IsBound(decoded)
          /\ IsBound(encoded)
          /\ IsBound(encoded_wo_spec_tokens)

\* C9 amended: in every run the steps occur in the order: collect the
\* checkpoint selection, resolve the tokenizer, collect the text, encode with
\* the default special tokens, decode each token, render the bullet list,
\* encode with special tokens suppressed, count, render the metric.
C9_ScriptOrder ==
    /\ IsBound(selected_checkpoint) <=> Rendered("selectbox")
    /\ IsBound(tokenizer) => IsBound(selected_checkpoint)
    /\ IsBound(user_input) => IsBound(tokenizer)
    /\ IsBound(user_input) <=> Rendered("text_input")
    /\ IsBound(encoded) => IsBound(user_input)
    /\ IsBound(decoded) => IsBound(encoded)
    /\ Rendered("markdown") => IsBound(decoded)
    /\ IsBound(encoded_wo_spec_tokens) => Rendered("markdown")
    /\ IsBound(num_tokens) => IsBound(encoded_wo_spec_tokens)
    /\ Rendered("metric") => IsBound(num_tokens)
    /\ Rendered("text_input") => Position("selectbox") < Position("text_input")
    /\ Rendered("markdown") => Position("text_input") < Position("markdown")
    /\ Rendered("metric") => Position("markdown") < Position("metric")

C9_Witness ==
    /\ pc = "encode_wo_spec_tokens"
    /\ Rendered("markdown")
    /\ ~IsBound(encoded_wo_spec_tokens)
    /\ selectbox_value # selectbox_default

\* C10: every interaction starts exactly one run and a run starts only by an
\* interaction; an ended run shows either the list and the metric and no
\* error, or an error and not both of them; every run ends.
C10_OneRunOneOutcome ==
    /\ [][WidgetChanged => Ended /\ pc' = "title" /\ screen' = <<>>]_vars
    /\ [][pc' = "title" /\ pc # "title" => WidgetChanged]_vars
    /\ [](pc = "done" =>
            Rendered("markdown") /\ Rendered("metric") /\ ~Rendered("exception"))
    /\ [](pc = "failed" =>
            Rendered("exception") /\ ~(Rendered("markdown") /\ Rendered("metric")))
    /\ [](Rendered("exception") => pc = "failed")
    /\ (~Ended ~> Ended)

C10_Witness ==
    /\ pc = "done"
    /\ memo # <<>>
    /\ text_input_value # value
    /\ Rendered("metric")

\* C2: in every completed run the number the metric shows is at most the
\* number of bullet lines, which is the length of the default encoding.
C2_MetricAtMostListLength ==
    pc = "done" =>
        /\ Len(BulletLines) = Len(ValueOf(encoded))
        /\ MetricValue = Len(ValueOf(encoded_wo_spec_tokens))
        /\ MetricValue <= Len(BulletLines)

C2_Witness ==
    /\ pc = "done"
    /\ ValueOf(selected_checkpoint) = "bert-large-cased"
    /\ Len(ValueOf(user_input)) = 2
    /\ MetricValue < Len(BulletLines)

\* C3: show_decoding returns one (ID, decode of the ID) pair per token of the
\* default encoding, in order, and the list has one bullet line per pair, in
\* order, showing that ID and that sub-string; repeated IDs repeat.
C3_OneLinePerTokenInOrder ==
    /\ IsBound(decoded) =>
          /\ Len(ValueOf(decoded)) = Len(ValueOf(encoded))
          /\ \A i \in 1..Len(ValueOf(encoded)) :
                /\ ValueOf(decoded)[i][1] = ValueOf(encoded)[i]
                /\ ValueOf(decoded)[i][2] =
                      vocab(ValueOf(tokenizer))[ValueOf(encoded)[i]]
    /\ Rendered("markdown") =>
          LET lines == BulletLines
          IN  /\ Len(lines) = Len(ValueOf(decoded))
              /\ \A i \in 1..Len(ValueOf(decoded)) :
                    lines[i] = <<backquote, ToString(ValueOf(decoded)[i][1]), ": ",
                                 ValueOf(decoded)[i][2], backquote>>

C3_Witness ==
    /\ Rendered("markdown")
    /\ LET lines == BulletLines
       IN  \E i, j \in 1..Len(ValueOf(encoded)) :
              /\ i < j
              /\ ValueOf(encoded)[i] = ValueOf(encoded)[j]
              /\ lines[i] = lines[j]

\* C4: a completed run with checkpoint "bert-base-uncased" and text
\* "gobbledygook!" lists exactly one leading and one trailing boundary marker
\* with at least one sub-word token between them, and its metric shows the
\* length of the default encoding minus two.
C4_DefaultInputsScenario ==
    pc = "done" /\ ValueOf(selected_checkpoint) = "bert-base-uncased"
                /\ ValueOf(user_input) = <<"gobbledygook!">> =>
        LET e == ValueOf(encoded)
            lines == BulletLines
        IN  /\ Len(e) >= 3
            /\ e[1] = 101
            /\ e[Len(e)] = 102
            /\ \A i \in 2..(Len(e) - 1) : e[i] \notin {101, 102}
            /\ Len(lines) = Len(e)
            /\ lines[1][4] = "[CLS]"
            /\ lines[Len(e)][4] = "[SEP]"
            /\ MetricValue = Len(e) - 2

C4_Witness ==
    /\ pc = "done"
    /\ memo = <<>>
    /\ ValueOf(selected_checkpoint) = "bert-base-uncased"
    /\ ValueOf(user_input) = <<"gobbledygook!">>
    /\ MetricValue = Len(BulletLines) - 2

\* C5: the empty text is passed to the tokenizer unchanged; a completed run
\* with the empty text lists exactly the two boundary markers and its metric
\* shows 0.
C5_EmptyText ==
    /\ IsBound(user_input) => ValueOf(user_input) = text_input_value
    /\ pc = "done" /\ text_input_value = <<>> =>
          /\ ValueOf(encoded) = <<101, 102>>
          /\ Len(BulletLines) = 2
          /\ MetricValue = 0

C5_Witness ==
    /\ pc = "done"
    /\ text_input_value = <<>>
    /\ ValueOf(user_input) = <<>>
    /\ MetricValue = 0

\* C6: a run starts with nothing bound and nothing rendered, and whatever a
\* run has computed or rendered equals what an earlier completed run with the
\* same checkpoint and text computed and rendered.
C6_HistoryIndependent ==
    /\ pc = "title" =>
          /\ screen = <<>>
          /\ \A i \in 1..Len(script_vars) : script_vars[i] = Unbound
    /\ /\ memo # <<>>
       /\ IsBound(selected_checkpoint)
       /\ IsBound(user_input)
       /\ ValueOf(selected_checkpoint) = memo[1].checkpoint
       /\ ValueOf(user_input) = memo[1].text
       => /\ IsBound(encoded) => ValueOf(encoded) = memo[1].encoded
          /\ IsBound(decoded) => ValueOf(decoded) = memo[1].decoded
          /\ IsBound(num_tokens) => ValueOf(num_tokens) = memo[1].num_tokens
          /\ pc = "done" => screen = memo[1].screen

C6_Witness ==
    /\ pc = "done"
    /\ memo # <<>>
    /\ ValueOf(selected_checkpoint) = memo[1].checkpoint
    /\ ValueOf(user_input) = memo[1].text
    /\ memo[1].checkpoint = "bert-base-cased"
    /\ screen = memo[1].screen

\* C7: for each of the four option names the resolution never fails as an
\* unknown checkpoint and can succeed, and the default encoding of the
\* default text is not empty.
C7_OptionsResolveAndEncode ==
    /\ error # "unknown-checkpoint"
    /\ pc = "from_pretrained" =>
          /\ ValueOf(selected_checkpoint) \in
                {"bert-base-uncased", "bert-base-cased",
                 "bert-large-uncased", "bert-large-cased"}
          /\ ENABLED (FromPretrained /\ pc' = "text_input")
    /\ IsBound(encoded) /\ ValueOf(user_input) = <<"gobbledygook!">> =>
          Len(ValueOf(encoded)) > 0

C7_Witness ==
    /\ IsBound(tokenizer)
    /\ IsBound(encoded)
    /\ ValueOf(tokenizer) = "bert-large-cased"
    /\ ValueOf(user_input) = <<"gobbledygook!">>
    /\ Len(ValueOf(encoded)) > 0

\* C8: the selection is always one of the four option strings; the first run
\* starts with the first option and the default text; the widget values
\* change only by an interaction, which changes one of the two.
C8_SelectionAmongOptions ==
    /\ selectbox_value = "bert-base-uncased" /\ text_input_value = <<"gobbledygook!">>
    /\ [](/\ selectbox_value \in {"bert-base-uncased", "bert-base-cased",
                                  "bert-large-uncased", "bert-large-cased"}
          /\ IsBound(selected_checkpoint) =>
                ValueOf(selected_checkpoint) = selectbox_value)
    /\ [][WidgetChanged => Ended]_vars
    /\ [][~(selectbox_value' # selectbox_value
            /\ text_input_value' # text_input_value)]_vars

C8_Witness ==
    /\ selectbox_value = "bert-large-cased"
    /\ text_input_value = <<"Hi", "gobbledygook!">>
    /\ IsBound(selected_checkpoint)
    /\ ValueOf(selected_checkpoint) = "bert-large-cased"

====
